---- MODULE Spec2Model ----
(***************************************************************************)
(* State-machine model of the ESP8266 alarm clock sketch                   *)
(* (src/version_01.ino): persisted settings, the web request handlers, the *)
(* trigger logic, the tone pattern generator, the OLED step and the        *)
(* WiFi/NTP maintenance step, run in the order of loop().                  *)
(*                                                                         *)
(* Every routine of the sketch is an operator from the record of globals   *)
(* (and the clock values it reads) to the record of globals after the      *)
(* call; the actions apply these operators at the program position `pc`.   *)
(* millis() never wraps inside the modelled horizon, so unsigned           *)
(* differences are plain differences; the 32-bit checksum is kept as a     *)
(* pair of 16-bit halves <<hi, lo>>.                                       *)
(***************************************************************************)
EXTENDS Integers, Sequences, FiniteSets, TLC

VARIABLES
    cfg,                \* AlarmSettings cfg (in memory)
    eeprom,             \* the AlarmSettings record stored at EEPROM offset 0
    alarmRinging,       \* bool alarmRinging
    lastTriggerKey,     \* int lastTriggerKey (-1 = none)
    snoozeUntil,        \* time_t snoozeUntil (0 = not snoozing)
    lastToneStepMs,     \* unsigned long lastToneStepMs
    toneFreq,           \* int toneFreq
    toneDir,            \* int toneDir
    patternMs,          \* static unsigned long patternMs of alarmSoundUpdate
    lastWiFiCheckMs,    \* unsigned long lastWiFiCheckMs
    lastNTPSyncCheckMs, \* unsigned long lastNTPSyncCheckMs
    buzzer,             \* BUZZER_PIN output: 0 = silent, else the tone frequency
    resp,               \* HTTP status of the last response sent (0 = none yet)
    ms,                 \* millis()
    synced,             \* SNTP has set the system clock
    wifi,               \* WiFi.status() == WL_CONNECTED
    sntp,               \* configTime() has been called
    pc,                 \* position in setup()/loop()
    req,                \* request dispatched by the last server.handleClient()
    took,               \* the last handler took its state-changing branch
    before,             \* history: trigger state and tone output when the last request arrived
    timeline,           \* the instants (ms since boot) at which the run reads the clocks
    firedKey,           \* history: key of the last minute-match fire since cfg was applied
    firedCount,         \* history: minute-match fires recorded for firedKey
    ringStartMs,        \* history: millis() at which alarmRinging last became true
    invoked             \* history: what the last maintainWiFiAndTime() call ran

vars == <<cfg, eeprom, alarmRinging, lastTriggerKey, snoozeUntil, lastToneStepMs,
          toneFreq, toneDir, patternMs, lastWiFiCheckMs, lastNTPSyncCheckMs,
          buzzer, resp, ms, synced, wifi, sntp, pc, req, took, before, timeline,
          firedKey, firedCount, ringStartMs, invoked>>

----------------------------------------------------------------------------
(* Bounds of the model *)

ExtraSeconds == 1       \* whole seconds appended to the end of a timeline
SoundTicks == 17        \* 80 ms loop ticks following the fire instant in the dense timeline
MaxFires == 3           \* the fire history counter saturates here
LoadTicks == 2          \* loop ticks following boot in the timeline of the load runs
MonitorRounds == 1      \* further connectivity intervals in the timeline of the monitor runs
ConvTicks == 1          \* loop ticks following the fire instant in the timeline of the conversion runs

----------------------------------------------------------------------------
(* Program constants *)

gmtOffset_sec == 6 * 3600
daylightOffset_sec == 0
SyncedEpoch == 1700000000
LoopDelayMs == 80
WiFiCheckMs == 5000
NTPCheckMs == 10000
ReconnectMaxMs == 8000
CycleMs == 500
OnMs == 350
StepMs == 60
StepHz == 120
FreqLo == 1200
FreqHi == 2500

\* epoch second the SNTP clock shows at millis() = 0: 2023-11-15 06:59:58 local
BootEpoch == SyncedEpoch + 10000 - 2

----------------------------------------------------------------------------
(* 32-bit checksum, as a pair of 16-bit halves *)

Half == 65536

RECURSIVE xorBits(_, _, _)
xorBits(a, b, n) ==
    IF n = 0 THEN 0
    ELSE ((a + b) % 2) + 2 * xorBits(a \div 2, b \div 2, n - 1)

\* sum * 2654435761UL, truncated to 32 bits (2654435761 = 40503 * 65536 + 31153)
mul32(sum) ==
    LET lo == sum * 31153
        hi == sum * 40503 + (lo \div Half)
    IN  <<hi % Half, lo % Half>>

simpleCRC(s) ==
    LET sum == s.enabled + s.hour12 + s.minute + s.am + s.snoozeMin
        p == mul32(sum)
    IN  <<xorBits(p[1], 42405, 16), xorBits(p[2], 42405, 16)>>

\* the five configuration bytes of an AlarmSettings record
Fields(s) == [enabled |-> s.enabled, hour12 |-> s.hour12, minute |-> s.minute,
              am |-> s.am, snoozeMin |-> s.snoozeMin]

WithCRC(f) == [enabled |-> f.enabled, hour12 |-> f.hour12, minute |-> f.minute,
               am |-> f.am, snoozeMin |-> f.snoozeMin, crc |-> simpleCRC(f)]

Defaults == [enabled |-> 0, hour12 |-> 7, minute |-> 0, am |-> 1, snoozeMin |-> 5]

\* the globals' initial value of cfg (zero-initialised static storage)
ZeroSettings == [enabled |-> 0, hour12 |-> 0, minute |-> 0, am |-> 0,
                 snoozeMin |-> 0, crc |-> <<0, 0>>]

OutOfRange(s) ==
    \/ s.hour12 < 1 \/ s.hour12 > 12
    \/ s.minute > 59
    \/ (s.am # 0 /\ s.am # 1)
    \/ s.snoozeMin < 1 \/ s.snoozeMin > 30

\* loadSettings() without the checksum comparison
loadSettings_noChecksum(stored) ==
    IF OutOfRange(stored)
    THEN [cfg |-> WithCRC(Defaults), eeprom |-> WithCRC(Defaults)]
    ELSE [cfg |-> stored, eeprom |-> stored]

\* loadSettings(): the pair (cfg, eeprom) after the call, from the stored record
loadSettings(stored) ==
    IF OutOfRange(stored)
    THEN [cfg |-> WithCRC(Defaults), eeprom |-> WithCRC(Defaults)]
    ELSE IF stored.crc # simpleCRC(stored)
         THEN [cfg |-> WithCRC(Defaults), eeprom |-> WithCRC(Defaults)]
         ELSE [cfg |-> stored, eeprom |-> stored]

\* saveSettings(): the record written to cfg and to the EEPROM
saveSettings(c) == WithCRC(c)

----------------------------------------------------------------------------
(* Clock reads *)

\* time(nullptr): seconds since boot until SNTP sets the clock
time(m, s) == IF s THEN BootEpoch + (m \div 1000) ELSE m \div 1000

timeSynced(now) == now > SyncedEpoch

IsLeap(y) == (y % 4 = 0 /\ y % 100 # 0) \/ y % 400 = 0
DaysIn(y) == IF IsLeap(y) THEN 366 ELSE 365

RECURSIVE ydayFrom(_, _)
ydayFrom(days, y) ==
    IF days < DaysIn(y) THEN days ELSE ydayFrom(days - DaysIn(y), y + 1)

\* localtime(&now) with the offsets given to configTime()
localtime(now) ==
    LET loc == now + gmtOffset_sec + daylightOffset_sec
    IN  [tm_sec  |-> loc % 60,
         tm_min  |-> (loc \div 60) % 60,
         tm_hour |-> (loc \div 3600) % 24,
         tm_yday |-> ydayFrom(loc \div 86400, 1970)]

to12h(h24) ==
    [hour12 |-> IF h24 % 12 = 0 THEN 12 ELSE h24 % 12, isAM |-> h24 < 12]

\* alarmHour24() that leaves 12 AM at 12
alarmHour24_noMidnight(c) ==
    IF c.am = 1 THEN c.hour12
    ELSE (IF c.hour12 = 12 THEN 12 ELSE c.hour12 + 12)

alarmHour24(c) ==
    IF c.am = 1
    THEN (IF c.hour12 = 12 THEN 0 ELSE c.hour12)
    ELSE (IF c.hour12 = 12 THEN 12 ELSE c.hour12 + 12)

----------------------------------------------------------------------------
(* Form fields: a field value is a sequence of one-character strings *)

DigitChars == <<"0", "1", "2", "3", "4", "5", "6", "7", "8", "9">>
IsDigit(ch) == \E d \in 1..10 : DigitChars[d] = ch
DigitOf(ch) == (CHOOSE d \in 1..10 : DigitChars[d] = ch) - 1

RECURSIVE digitsFrom(_, _, _)
digitsFrom(s, i, acc) ==
    IF i > Len(s) \/ ~IsDigit(s[i]) THEN acc
    ELSE digitsFrom(s, i + 1, acc * 10 + DigitOf(s[i]))

RECURSIVE skipSpace(_, _)
skipSpace(s, i) == IF i <= Len(s) /\ s[i] = " " THEN skipSpace(s, i + 1) ELSE i

\* String::toInt(): atol() of the text: blanks, an optional sign, then digits
toInt(s) ==
    LET i == skipSpace(s, 1)
    IN  IF i <= Len(s) /\ s[i] = "-" THEN 0 - digitsFrom(s, i + 1, 0)
        ELSE IF i <= Len(s) /\ s[i] = "+" THEN digitsFrom(s, i + 1, 0)
        ELSE digitsFrom(s, i, 0)


----------------------------------------------------------------------------
(* The globals the handlers and loop steps work on, as one record *)

G == [cfg |-> cfg, eeprom |-> eeprom, alarmRinging |-> alarmRinging,
      lastTriggerKey |-> lastTriggerKey, snoozeUntil |-> snoozeUntil,
      lastToneStepMs |-> lastToneStepMs, toneFreq |-> toneFreq,
      toneDir |-> toneDir, patternMs |-> patternMs, buzzer |-> buzzer,
      resp |-> resp]

\* the next-state values of the globals are those of the record r
Becomes(r) ==
    /\ cfg' = r.cfg
    /\ eeprom' = r.eeprom
    /\ alarmRinging' = r.alarmRinging
    /\ lastTriggerKey' = r.lastTriggerKey
    /\ snoozeUntil' = r.snoozeUntil
    /\ lastToneStepMs' = r.lastToneStepMs
    /\ toneFreq' = r.toneFreq
    /\ toneDir' = r.toneDir
    /\ patternMs' = r.patternMs
    /\ buzzer' = r.buzzer
    /\ resp' = r.resp

----------------------------------------------------------------------------
(* Web handlers *)

hasArg(a, name) == name \in a.has

SetMissing(a) ==
    ~hasArg(a, "h") \/ ~hasArg(a, "m") \/ ~hasArg(a, "ap") \/ ~hasArg(a, "sz")

SetInvalid(a) ==
    LET h == toInt(a.h)
        m == toInt(a.m)
        sz == toInt(a.sz)
    IN  h < 1 \/ h > 12 \/ m < 0 \/ m > 59 \/ sz < 1 \/ sz > 30

\* the fields handleSet() writes to cfg
SetFields(a) ==
    [enabled |-> IF hasArg(a, "en") THEN 1 ELSE 0,
     hour12 |-> toInt(a.h),
     minute |-> toInt(a.m),
     am |-> IF a.ap = "AM" THEN 1 ELSE 0,
     snoozeMin |-> toInt(a.sz)]

\* handleSet() that saves the settings but leaves the alarm as it is
handleSet_noReset(g, a) ==
    IF SetMissing(a) THEN [g EXCEPT !.resp = 400]
    ELSE IF SetInvalid(a) THEN [g EXCEPT !.resp = 400]
    ELSE [g EXCEPT !.cfg = saveSettings(SetFields(a)),
                   !.eeprom = saveSettings(SetFields(a)),
                   !.resp = 303]

\* handleSet() that stops the alarm before it validates the fields
handleSet_earlyReset(g, a) ==
    IF SetMissing(a) THEN [g EXCEPT !.resp = 400]
    ELSE IF SetInvalid(a)
         THEN [g EXCEPT !.alarmRinging = FALSE, !.snoozeUntil = 0,
                        !.buzzer = 0, !.lastTriggerKey = -1, !.resp = 400]
    ELSE [g EXCEPT !.cfg = saveSettings(SetFields(a)),
                   !.eeprom = saveSettings(SetFields(a)),
                   !.alarmRinging = FALSE,
                   !.snoozeUntil = 0,
                   !.buzzer = 0,
                   !.lastTriggerKey = -1,
                   !.resp = 303]

\* handleSet() that stops the ring but leaves a pending snooze in place
handleSet_keepsSnooze(g, a) ==
    IF SetMissing(a) THEN [g EXCEPT !.resp = 400]
    ELSE IF SetInvalid(a) THEN [g EXCEPT !.resp = 400]
    ELSE [g EXCEPT !.cfg = saveSettings(SetFields(a)),
                   !.eeprom = saveSettings(SetFields(a)),
                   !.alarmRinging = FALSE,
                   !.buzzer = 0,
                   !.lastTriggerKey = -1,
                   !.resp = 303]

handleSet(g, a) ==
    IF SetMissing(a) THEN [g EXCEPT !.resp = 400]
    ELSE IF SetInvalid(a) THEN [g EXCEPT !.resp = 400]
    ELSE [g EXCEPT !.cfg = saveSettings(SetFields(a)),
                   !.eeprom = saveSettings(SetFields(a)),
                   !.alarmRinging = FALSE,
                   !.snoozeUntil = 0,
                   !.buzzer = 0,
                   !.lastTriggerKey = -1,
                   !.resp = 303]

\* handleStop() that leaves a pending snooze in place
handleStop_keepsSnooze(g) ==
    [g EXCEPT !.alarmRinging = FALSE,
              !.buzzer = 0,
              !.lastTriggerKey = -1,
              !.resp = 303]

\* handleStop() without the noTone() call
handleStop_noSilence(g) ==
    [g EXCEPT !.alarmRinging = FALSE,
              !.snoozeUntil = 0,
              !.lastTriggerKey = -1,
              !.resp = 303]

\* handleStop() that keeps the minute-guard key
handleStop_keepsKey(g) ==
    [g EXCEPT !.alarmRinging = FALSE,
              !.snoozeUntil = 0,
              !.buzzer = 0,
              !.resp = 303]

handleStop(g) ==
    [g EXCEPT !.alarmRinging = FALSE,
              !.snoozeUntil = 0,
              !.buzzer = 0,
              !.lastTriggerKey = -1,
              !.resp = 303]

\* the if-branch of handleSnooze() is taken
SnoozeTaken(g, now) == g.alarmRinging /\ timeSynced(now)

\* handleSnooze() that sets snoozeUntil but does not clear alarmRinging
handleSnooze_keepsRinging(g, now) ==
    [g EXCEPT !.snoozeUntil = IF SnoozeTaken(g, now)
                              THEN now + g.cfg.snoozeMin * 60
                              ELSE g.snoozeUntil,
              !.buzzer = 0,
              !.lastTriggerKey = -1,
              !.resp = 303]

\* handleSnooze() that counts the snooze length in seconds
handleSnooze_seconds(g, now) ==
    [g EXCEPT !.snoozeUntil = IF SnoozeTaken(g, now)
                              THEN now + g.cfg.snoozeMin
                              ELSE g.snoozeUntil,
              !.alarmRinging = FALSE,
              !.buzzer = 0,
              !.lastTriggerKey = -1,
              !.resp = 303]

\* handleSnooze() that snoozes whether or not the alarm is ringing
handleSnooze_always(g, now) ==
    [g EXCEPT !.snoozeUntil = now + g.cfg.snoozeMin * 60,
              !.alarmRinging = FALSE,
              !.buzzer = 0,
              !.lastTriggerKey = -1,
              !.resp = 303]

handleSnooze(g, now) ==
    [g EXCEPT !.snoozeUntil = IF SnoozeTaken(g, now)
                              THEN now + g.cfg.snoozeMin * 60
                              ELSE g.snoozeUntil,
              !.alarmRinging = FALSE,
              !.buzzer = 0,
              !.lastTriggerKey = -1,
              !.resp = 303]

\* what page() reports: the status part of the HTML
page(g, now) ==
    [time |-> IF timeSynced(now)
              THEN LET ti == localtime(now)
                   IN  <<to12h(ti.tm_hour).hour12, ti.tm_min, ti.tm_sec,
                         to12h(ti.tm_hour).isAM>>
              ELSE <<>>,
     enabled |-> g.cfg.enabled # 0,
     hour12 |-> g.cfg.hour12,
     minute |-> g.cfg.minute,
     isAM |-> g.cfg.am # 0,
     snoozeMin |-> g.cfg.snoozeMin,
     remain |-> IF g.snoozeUntil > 0 /\ now < g.snoozeUntil
                THEN g.snoozeUntil - now ELSE 0,
     ringing |-> g.alarmRinging]

handleRoot(g) == [g EXCEPT !.resp = 200]

----------------------------------------------------------------------------
(* Loop steps *)

\* the minute-match condition of updateAlarmLogic()
MinuteMatch(g, now) ==
    LET ti == localtime(now)
    IN  /\ ti.tm_hour = alarmHour24(g.cfg)
        /\ ti.tm_min = g.cfg.minute
        /\ ti.tm_sec = 0
        /\ ~g.alarmRinging

TriggerKey(now) ==
    LET ti == localtime(now)
    IN  ti.tm_yday * 24 * 60 + ti.tm_hour * 60 + ti.tm_min

\* updateAlarmLogic() starts a ring from the minute match
Fires(g, now) ==
    /\ g.cfg.enabled # 0
    /\ timeSynced(now)
    /\ g.snoozeUntil = 0
    /\ MinuteMatch(g, now)
    /\ TriggerKey(now) # g.lastTriggerKey

\* updateAlarmLogic() without the early return for a disabled alarm
updateAlarmLogic_ignoresEnabled(g, now) ==
    IF ~timeSynced(now) THEN g
    ELSE IF g.snoozeUntil > 0
         THEN IF now >= g.snoozeUntil
              THEN [g EXCEPT !.snoozeUntil = 0,
                             !.alarmRinging = TRUE,
                             !.lastTriggerKey = -1]
              ELSE g
    ELSE IF MinuteMatch(g, now) /\ TriggerKey(now) # g.lastTriggerKey
         THEN [g EXCEPT !.lastTriggerKey = TriggerKey(now),
                        !.alarmRinging = TRUE,
                        !.toneFreq = FreqLo,
                        !.toneDir = 1,
                        !.lastToneStepMs = 0]
         ELSE g

\* updateAlarmLogic() that ends a ring once its minute is over
updateAlarmLogic_autoStop(g, now) ==
    IF g.cfg.enabled = 0 THEN g
    ELSE IF ~timeSynced(now) THEN g
    ELSE IF g.snoozeUntil > 0
         THEN IF now >= g.snoozeUntil
              THEN [g EXCEPT !.snoozeUntil = 0,
                             !.alarmRinging = TRUE,
                             !.lastTriggerKey = -1]
              ELSE g
    ELSE IF g.alarmRinging /\ g.lastTriggerKey # -1
            /\ TriggerKey(now) # g.lastTriggerKey
         THEN [g EXCEPT !.alarmRinging = FALSE]
    ELSE IF MinuteMatch(g, now) /\ TriggerKey(now) # g.lastTriggerKey
         THEN [g EXCEPT !.lastTriggerKey = TriggerKey(now),
                        !.alarmRinging = TRUE,
                        !.toneFreq = FreqLo,
                        !.toneDir = 1,
                        !.lastToneStepMs = 0]
         ELSE g

updateAlarmLogic(g, now) ==
    IF g.cfg.enabled = 0 THEN g
    ELSE IF ~timeSynced(now) THEN g
    ELSE IF g.snoozeUntil > 0
         THEN IF now >= g.snoozeUntil
              THEN [g EXCEPT !.snoozeUntil = 0,
                             !.alarmRinging = TRUE,
                             !.lastTriggerKey = -1]
              ELSE g
    ELSE IF MinuteMatch(g, now) /\ TriggerKey(now) # g.lastTriggerKey
         THEN [g EXCEPT !.lastTriggerKey = TriggerKey(now),
                        !.alarmRinging = TRUE,
                        !.toneFreq = FreqLo,
                        !.toneDir = 1,
                        !.lastToneStepMs = 0]
         ELSE g

\* the warble step: frequency and direction after one step
warble(freq, dir) ==
    LET f == freq + dir * StepHz
        d1 == IF f >= FreqHi THEN -1 ELSE dir
        d2 == IF f <= FreqLo THEN 1 ELSE d1
    IN  [toneFreq |-> f, toneDir |-> d2]

alarmSoundUpdate(g, nowMs) ==
    IF ~g.alarmRinging THEN [g EXCEPT !.buzzer = 0]
    ELSE LET pat == IF g.patternMs = 0 THEN nowMs ELSE g.patternMs
             phase == (nowMs - pat) % CycleMs
             shouldOn == phase < OnMs
             w == warble(g.toneFreq, g.toneDir)
         IN  IF shouldOn
             THEN IF nowMs - g.lastToneStepMs > StepMs
                  THEN [g EXCEPT !.patternMs = pat,
                                 !.lastToneStepMs = nowMs,
                                 !.toneFreq = w.toneFreq,
                                 !.toneDir = w.toneDir,
                                 !.buzzer = w.toneFreq]
                  ELSE [g EXCEPT !.patternMs = pat]
             ELSE [g EXCEPT !.patternMs = pat, !.buzzer = 0]

\* drawOLED(): the fields sent to the display are not kept; its one write is snoozeUntil
drawOLED(g, now) ==
    IF g.alarmRinging THEN g
    ELSE IF g.snoozeUntil > 0 /\ timeSynced(now)
         THEN IF now < g.snoozeUntil THEN g
              ELSE [g EXCEPT !.snoozeUntil = 0]
    ELSE g

\* what drawOLED() shows in the status corner
oledStatus(g, now) ==
    IF g.alarmRinging THEN "RING"
    ELSE IF g.snoozeUntil > 0 /\ timeSynced(now) /\ now < g.snoozeUntil THEN "SNZ"
    ELSE ""

\* the connectivity check already due when exactly the interval has passed
WiFiDue_atLeast(nowMs) == nowMs - lastWiFiCheckMs >= WiFiCheckMs

\* maintainWiFiAndTime(): which of its two checks are due at nowMs
WiFiDue(nowMs) == nowMs - lastWiFiCheckMs > WiFiCheckMs
NTPDue(nowMs) == nowMs - lastNTPSyncCheckMs > NTPCheckMs


----------------------------------------------------------------------------
(* Clock instants and request inputs *)

\* millis() at which the SNTP clock shows 07:00:00 local
FireMs == (SyncedEpoch + 10000 - BootEpoch) * 1000
\* one snooze of the shortest length later
ReRingMs == FireMs + 60 * 1000

\* a run of the trigger logic: the ticks around the start of the alarm minute
\* and around the end of a one-minute snooze, with two ticks inside second 0
TriggerTimeline ==
    {0, FireMs - LoopDelayMs, FireMs, FireMs + LoopDelayMs, FireMs + 1000}
    \cup {ReRingMs - LoopDelayMs, ReRingMs, ReRingMs + LoopDelayMs}
    \cup {ReRingMs + 1000 * k : k \in 1..ExtraSeconds}

\* a run of the tone pattern: consecutive loop ticks from the fire instant
\* and from the end of a one-minute snooze
SoundTimeline ==
    {0} \cup {FireMs + LoopDelayMs * k : k \in 0..SoundTicks}
    \cup {ReRingMs + LoopDelayMs * k : k \in 0..ExtraSeconds}

Later(t) == {u \in timeline : u > t}

\* a valid stored record, and the record of an erased EEPROM
StoredAlarm ==
    WithCRC([enabled |-> 1, hour12 |-> 7, minute |-> 0, am |-> 1, snoozeMin |-> 1])
ErasedRecord ==
    [enabled |-> 255, hour12 |-> 255, minute |-> 255, am |-> 255,
     snoozeMin |-> 255, crc |-> <<65535, 65535>>]

AllArgs == {"h", "m", "ap", "sz", "en"}

\* POST /set requests
SetRequests ==
    [has : {AllArgs} \cup {AllArgs \ {n} : n \in AllArgs},
     h : {<<"7">>, <<"0">>, <<"1", "3">>},
     m : {<<"0">>, <<"6", "0">>, <<"-", "1">>},
     ap : {"AM", "PM"},
     sz : {<<"1">>, <<"0">>, <<"3", "1">>}]

----------------------------------------------------------------------------
(* Initial state: the globals as initialised, before setup() *)

InitGlobals ==
    /\ cfg = ZeroSettings
    /\ alarmRinging = FALSE
    /\ lastTriggerKey = -1
    /\ snoozeUntil = 0
    /\ lastToneStepMs = 0
    /\ toneFreq = 1200
    /\ toneDir = 1
    /\ patternMs = 0
    /\ lastWiFiCheckMs = 0
    /\ lastNTPSyncCheckMs = 0
    /\ buzzer = 0
    /\ resp = 0
    /\ ms = 0
    /\ synced = FALSE
    /\ wifi = FALSE
    /\ sntp = FALSE
    /\ pc = "setup"
    /\ req = "none"
    /\ took = FALSE
    /\ before = [state |-> "Idle", tone |-> FALSE]
    /\ firedKey = -1
    /\ firedCount = 0
    /\ ringStartMs = 0
    /\ invoked = {}

Init ==
    /\ InitGlobals
    /\ eeprom \in {StoredAlarm, ErasedRecord}
    /\ timeline = TriggerTimeline

----------------------------------------------------------------------------
(* Actions *)

Now == time(ms, synced)

\* the state of the trigger engine, as the specification names it
StateName(g) ==
    IF g.alarmRinging THEN "Ringing"
    ELSE IF g.snoozeUntil # 0 THEN "Snoozed" ELSE "Idle"

Arrival == [state |-> StateName(G), tone |-> buzzer # 0]

Env == <<ms, synced, wifi, sntp, timeline>>
Hist == <<firedKey, firedCount>>
Monitor == <<lastWiFiCheckMs, lastNTPSyncCheckMs>>
Trace == <<ringStartMs, invoked>>

\* setup(): silence the pin, load the settings, try WiFi, start SNTP and
\* wait for the time; the WiFi and SNTP outcomes and the time taken are open
Setup ==
    /\ pc = "setup"
    /\ LET l == loadSettings(eeprom)
       IN  Becomes([G EXCEPT !.cfg = l.cfg, !.eeprom = l.eeprom, !.buzzer = 0])
    /\ wifi' \in BOOLEAN
    /\ sntp' = wifi'
    /\ synced' \in (IF wifi' THEN BOOLEAN ELSE {FALSE})
    /\ ms' \in {t \in timeline : t <= 15000 + 15000}
    /\ pc' = "client"
    /\ UNCHANGED <<Monitor, Hist, Trace, req, took, before, timeline>>

\* server.handleClient() with no request waiting
NoRequest ==
    /\ pc = "client"
    /\ pc' = "maintain"
    /\ req' = "none"
    /\ took' = FALSE
    /\ before' = Arrival
    /\ UNCHANGED <<cfg, eeprom, alarmRinging, lastTriggerKey, snoozeUntil,
                   lastToneStepMs, toneFreq, toneDir, patternMs, buzzer, resp,
                   Monitor, Env, Hist, Trace>>

HandleRoot ==
    /\ pc = "client"
    /\ Becomes(handleRoot(G))
    /\ pc' = "maintain"
    /\ req' = "root"
    /\ took' = FALSE
    /\ before' = Arrival
    /\ UNCHANGED <<Monitor, Env, Hist, Trace>>

HandleSet(a) ==
    /\ pc = "client"
    /\ Becomes(handleSet(G, a))
    /\ pc' = "maintain"
    /\ req' = "set"
    /\ took' = (~SetMissing(a) /\ ~SetInvalid(a))
    /\ before' = Arrival
    /\ IF took' THEN firedKey' = -1 /\ firedCount' = 0 ELSE UNCHANGED Hist
    /\ UNCHANGED <<Monitor, Env, Trace>>

HandleStop ==
    /\ pc = "client"
    /\ Becomes(handleStop(G))
    /\ pc' = "maintain"
    /\ req' = "stop"
    /\ took' = TRUE
    /\ before' = Arrival
    /\ UNCHANGED <<Monitor, Env, Hist, Trace>>

HandleSnooze ==
    /\ pc = "client"
    /\ Becomes(handleSnooze(G, Now))
    /\ pc' = "maintain"
    /\ req' = "snooze"
    /\ took' = SnoozeTaken(G, Now)
    /\ before' = Arrival
    /\ UNCHANGED <<Monitor, Env, Hist, Trace>>

\* the call recorded in `invoked` when its branch is taken
Ran(name, taken) == IF taken THEN {name} ELSE {}

\* maintainWiFiAndTime(): both checks compare against the one millis() read
\* at entry; a reconnect attempt may or may not bring the link up (the time
\* it blocks is time passing, see Advance)
MaintainWiFiAndTime ==
    /\ pc = "maintain"
    /\ lastWiFiCheckMs' = IF WiFiDue(ms) THEN ms ELSE lastWiFiCheckMs
    /\ wifi' \in (IF WiFiDue(ms) /\ ~wifi THEN BOOLEAN ELSE {wifi})
    /\ lastNTPSyncCheckMs' = IF NTPDue(ms) THEN ms ELSE lastNTPSyncCheckMs
    /\ sntp' = (sntp \/ (NTPDue(ms) /\ ~timeSynced(Now) /\ wifi'))
    /\ invoked' = Ran("wifiCheck", WiFiDue(ms))
                  \cup Ran("reconnect", WiFiDue(ms) /\ ~wifi)
                  \cup Ran("ntpCheck", NTPDue(ms))
                  \cup Ran("configTime", NTPDue(ms) /\ ~timeSynced(Now) /\ wifi')
    /\ pc' = "logic"
    /\ UNCHANGED <<cfg, eeprom, alarmRinging, lastTriggerKey, snoozeUntil,
                   lastToneStepMs, toneFreq, toneDir, patternMs, buzzer, resp,
                   ms, synced, timeline, req, took, before, Hist, ringStartMs>>

UpdateAlarmLogic ==
    /\ pc = "logic"
    /\ Becomes(updateAlarmLogic(G, Now))
    /\ IF Fires(G, Now)
       THEN /\ firedKey' = TriggerKey(Now)
            /\ firedCount' = IF firedKey = TriggerKey(Now)
                             THEN (IF firedCount < MaxFires THEN firedCount + 1
                                   ELSE firedCount)
                             ELSE 1
       ELSE UNCHANGED Hist
    /\ ringStartMs' = IF ~alarmRinging /\ updateAlarmLogic(G, Now).alarmRinging
                       THEN ms ELSE ringStartMs
    /\ pc' = "sound"
    /\ UNCHANGED <<Monitor, Env, req, took, before, invoked>>

AlarmSoundUpdate ==
    /\ pc = "sound"
    /\ Becomes(alarmSoundUpdate(G, ms))
    /\ pc' = "draw"
    /\ UNCHANGED <<Monitor, Env, Hist, Trace, req, took, before>>

DrawOLED ==
    /\ pc = "draw"
    /\ Becomes(drawOLED(G, Now))
    /\ pc' = "delay"
    /\ UNCHANGED <<Monitor, Env, Hist, Trace, req, took, before>>

\* delay(80) at the end of loop()
Delay ==
    /\ pc = "delay"
    /\ ms' \in {t \in timeline : t >= ms + LoopDelayMs}
    /\ pc' = "client"
    /\ UNCHANGED <<cfg, eeprom, alarmRinging, lastTriggerKey, snoozeUntil,
                   lastToneStepMs, toneFreq, toneDir, patternMs, buzzer, resp,
                   Monitor, synced, wifi, sntp, timeline, Hist, Trace, req, took, before>>

\* time passes between two steps of a tick: the steps take time, at most
\* that of a blocking reconnect attempt
Advance ==
    /\ pc \notin {"setup", "delay"}
    /\ ms' \in {t \in Later(ms) : t - ms <= ReconnectMaxMs}
    /\ UNCHANGED <<cfg, eeprom, alarmRinging, lastTriggerKey, snoozeUntil,
                   lastToneStepMs, toneFreq, toneDir, patternMs, buzzer, resp,
                   Monitor, synced, wifi, sntp, timeline, Hist, Trace, pc, req, took, before>>

\* the access point goes away or comes back
WiFiChange ==
    /\ pc # "setup"
    /\ wifi' = ~wifi
    /\ UNCHANGED <<cfg, eeprom, alarmRinging, lastTriggerKey, snoozeUntil,
                   lastToneStepMs, toneFreq, toneDir, patternMs, buzzer, resp,
                   Monitor, ms, synced, sntp, timeline, Hist, Trace, pc, req, took, before>>

\* an SNTP reply sets the system clock
SntpSync ==
    /\ pc # "setup"
    /\ sntp /\ wifi /\ ~synced
    /\ synced' = TRUE
    /\ UNCHANGED <<cfg, eeprom, alarmRinging, lastTriggerKey, snoozeUntil,
                   lastToneStepMs, toneFreq, toneDir, patternMs, buzzer, resp,
                   Monitor, ms, wifi, sntp, timeline, Hist, Trace, pc, req, took, before>>

Next ==
    \/ Setup
    \/ NoRequest
    \/ HandleRoot
    \/ \E a \in SetRequests : HandleSet(a)
    \/ HandleStop
    \/ HandleSnooze
    \/ MaintainWiFiAndTime
    \/ UpdateAlarmLogic
    \/ AlarmSoundUpdate
    \/ DrawOLED
    \/ Delay
    \/ Advance
    \/ WiFiChange
    \/ SntpSync

Spec == Init /\ [][Next]_vars


\* the same program on the dense timeline of the tone pattern
InitSound ==
    /\ InitGlobals
    /\ eeprom = StoredAlarm
    /\ timeline = SoundTimeline

\* ticks and Stop/Snooze requests, with time passing only in delay(80)
NextSound ==
    \/ Setup
    \/ NoRequest
    \/ HandleStop
    \/ HandleSnooze
    \/ MaintainWiFiAndTime
    \/ UpdateAlarmLogic
    \/ AlarmSoundUpdate
    \/ DrawOLED
    \/ Delay
    \/ SntpSync

SpecSound == InitSound /\ [][NextSound]_vars


\* the same program started from every persisted record of PersistedRecords
LoadTimeline == {LoopDelayMs * k : k \in 0..LoadTicks}

PersistedFields ==
    [enabled : {0, 1, 2}, hour12 : {0, 7, 12, 13}, minute : {0, 59, 60},
     am : {0, 1, 2}, snoozeMin : {0, 1, 30, 31}]

PersistedRecords ==
    {[WithCRC(f) EXCEPT !.crc = c] :
        f \in PersistedFields, c \in {<<0, 0>>, <<65535, 65535>>}}
    \cup {WithCRC(f) : f \in PersistedFields}
    \cup {ErasedRecord}

InitLoad ==
    /\ InitGlobals
    /\ eeprom \in PersistedRecords
    /\ timeline = LoadTimeline

SpecLoad == InitLoad /\ [][Next]_vars


\* the same program with every hour and meridiem applied through POST /set
ConvTimeline == {0} \cup {FireMs + LoopDelayMs * k : k \in 0..ConvTicks}

HourTexts ==
    {<<"1">>, <<"2">>, <<"3">>, <<"4">>, <<"5">>, <<"6">>, <<"7">>, <<"8">>,
     <<"9">>, <<"1", "0">>, <<"1", "1">>, <<"1", "2">>}

ConvRequests ==
    [has : {AllArgs}, h : HourTexts, m : {<<"0">>}, ap : {"AM", "PM"},
     sz : {<<"1">>}]

InitConv ==
    /\ InitGlobals
    /\ eeprom = StoredAlarm
    /\ timeline = ConvTimeline

NextConv ==
    \/ Setup
    \/ NoRequest
    \/ \E a \in ConvRequests : HandleSet(a)
    \/ HandleStop
    \/ MaintainWiFiAndTime
    \/ UpdateAlarmLogic
    \/ AlarmSoundUpdate
    \/ DrawOLED
    \/ Delay

SpecConv == InitConv /\ [][NextConv]_vars

\* the same program with ticks at and just after the two check intervals
MonitorTimeline ==
    {0, WiFiCheckMs, WiFiCheckMs + LoopDelayMs, NTPCheckMs, NTPCheckMs + LoopDelayMs}
    \cup {NTPCheckMs + WiFiCheckMs * k + LoopDelayMs : k \in 1..MonitorRounds}

InitMonitor ==
    /\ InitGlobals
    /\ eeprom \in {StoredAlarm, ErasedRecord}
    /\ timeline = MonitorTimeline

SpecMonitor == InitMonitor /\ [][Next]_vars

----------------------------------------------------------------------------
(* Properties *)

Idle(g) ==
    /\ ~g.alarmRinging
    /\ g.snoozeUntil = 0
    /\ g.lastTriggerKey = -1
    /\ g.buzzer = 0

\* C1: in a minute that matches the configured alarm time, the minute match
\* starts a ring exactly once; no later tick of that minute fires again,
\* whatever Stop, Snooze or page requests arrive in the minute.
C1_OneFirePerMinute == firedCount <= 1

\* C2: once a snooze is pending (alarm enabled, time trusted), only a request
\* or the trigger engine ends it: the engine step leaves it alone while
\* now < snoozeUntil and turns it into a ring when now >= snoozeUntil, and
\* no other step of a tick changes snoozeUntil or the ringing flag, at
\* whatever time that step reads the clock.
C2_SnoozeRoundTrip ==
    [][(snoozeUntil # 0 /\ cfg.enabled # 0 /\ timeSynced(Now)) =>
         IF pc = "client" THEN TRUE
         ELSE IF pc = "logic" /\ pc' = "sound"
              THEN IF Now >= snoozeUntil
                   THEN alarmRinging' /\ snoozeUntil' = 0
                   ELSE ~alarmRinging' /\ snoozeUntil' = snoozeUntil
         ELSE alarmRinging' = alarmRinging /\ snoozeUntil' = snoozeUntil]_vars

\* C3: alarmRinging and a set (non-zero) snoozeUntil never hold together.
C3_RingingExcludesSnooze == ~(alarmRinging /\ snoozeUntil # 0)

C3_Witness ==
    /\ req = "snooze" /\ took /\ before.state = "Ringing"
    /\ snoozeUntil # 0 /\ ~alarmRinging

\* C4: Stop() from any state gives ringing = false, snoozeUntil = none,
\* lastFiredKey = none and a silent output, and a second Stop() changes
\* nothing.
C4_StopIdempotent ==
    LET s == handleStop(G)
    IN  /\ Idle(s)
        /\ handleStop(s) = s
        /\ (pc = "maintain" /\ req = "stop") => Idle(G)

C4_Witness ==
    /\ pc = "maintain" /\ req = "stop"
    /\ before.state = "Ringing" /\ before.tone

\* a request that carries a valid configuration
C5_Valid(a) ==
    /\ {"h", "m", "ap", "sz"} \subseteq a.has
    /\ toInt(a.h) \in 1..12
    /\ toInt(a.m) \in 0..59
    /\ toInt(a.sz) \in 1..30
    /\ a.ap \in {"AM", "PM"}

\* C5: applying a valid configuration leaves exactly the applied values in
\* memory and in the store (as the status page reports them) and forces the
\* trigger state to idle with the output silent.
C5_ApplyConfiguration ==
    /\ pc = "client" =>
         \A a \in SetRequests :
            C5_Valid(a) =>
               LET s == handleSet(G, a)
                   st == page(s, Now)
               IN  /\ st.enabled = ("en" \in a.has)
                   /\ st.hour12 = toInt(a.h)
                   /\ st.minute = toInt(a.m)
                   /\ st.isAM = (a.ap = "AM")
                   /\ st.snoozeMin = toInt(a.sz)
                   /\ ~st.ringing /\ st.remain = 0
                   /\ s.eeprom = s.cfg
                   /\ s.cfg.crc = simpleCRC(s.cfg)
                   /\ s.cfg.enabled \in {0, 1} /\ s.cfg.am \in {0, 1}
                   /\ Idle(s)
                   /\ s.resp = 303
    /\ (pc = "maintain" /\ req = "set" /\ took) => (Idle(G) /\ eeprom = cfg)

C5_Witness ==
    /\ pc = "maintain" /\ req = "set" /\ took
    /\ before.state = "Ringing"
    /\ cfg.am = 0 /\ cfg.enabled = 1

\* a request with a field missing or out of range
C6_Bad(a) ==
    \/ \E n \in {"h", "m", "ap", "sz"} : n \notin a.has
    \/ toInt(a.h) \notin 1..12
    \/ toInt(a.m) \notin 0..59
    \/ toInt(a.sz) \notin 1..30

\* C6: a configuration request with a missing or out-of-range field is
\* answered with a validation error (400) and changes nothing else: the
\* configuration, the stored record, the trigger state and the sound state
\* stay as they were.
C6_RejectedChangesNothing ==
    /\ pc = "client" =>
         \A a \in SetRequests :
            C6_Bad(a) => handleSet(G, a) = [G EXCEPT !.resp = 400]
    /\ (pc = "maintain" /\ req = "set" /\ ~took) =>
         (resp = 400 /\ StateName(G) = before.state /\ (buzzer # 0) = before.tone)

C6_Witness ==
    /\ pc = "maintain" /\ req = "set" /\ ~took /\ resp = 400
    /\ before.state = "Ringing" /\ alarmRinging /\ buzzer # 0

\* C7 (as claimed): Snooze() while not ringing, or without trusted time,
\* gives the state Stop() gives.
C7_SnoozeActsAsStop ==
    (pc = "client" /\ ~(alarmRinging /\ timeSynced(Now))) =>
        handleSnooze(G, Now) = handleStop(G)

\* C7 (amended): Snooze() while not ringing, or without trusted time, clears
\* ringing and the guard key and silences the output as Stop() does and sets
\* no new snoozeUntil, but leaves a pending snoozeUntil as it was.
C7_SnoozeKeepsPending ==
    /\ (pc = "client" /\ ~(alarmRinging /\ timeSynced(Now))) =>
          handleSnooze(G, Now) = [handleStop(G) EXCEPT !.snoozeUntil = snoozeUntil]
    /\ (pc = "maintain" /\ req = "snooze" /\ ~took) =>
          (~alarmRinging /\ lastTriggerKey = -1 /\ buzzer = 0
           /\ (snoozeUntil # 0) = (before.state = "Snoozed"))

C7_Witness ==
    /\ pc = "maintain" /\ req = "snooze" /\ ~took
    /\ before.state = "Snoozed" /\ snoozeUntil # 0

\* C8: the tone frequency, stored and emitted, stays within [1200, 2500] Hz,
\* and the sweep direction changes only on a step that leaves the frequency
\* at a boundary.
C8_FrequencyBounded ==
    /\ [](toneFreq \in FreqLo..FreqHi /\ buzzer \in ({0} \cup (FreqLo..FreqHi)))
    /\ [][toneDir' # toneDir => toneFreq' \in {FreqLo, FreqHi}]_vars

\* C9: the tone output is active only while the alarm is ringing; after the
\* sound generator step of a tick that is not ringing the output is silent.
C9_ToneOnlyWhileRinging ==
    /\ buzzer # 0 => alarmRinging
    /\ (pc = "draw" /\ ~alarmRinging) => buzzer = 0

C9_Witness ==
    /\ pc = "maintain" /\ req = "snooze" /\ took
    /\ before.tone /\ buzzer = 0 /\ ~alarmRinging

C10_Default ==
    [enabled |-> 0, hour12 |-> 7, minute |-> 0, am |-> 1, snoozeMin |-> 5,
     crc |-> simpleCRC([enabled |-> 0, hour12 |-> 7, minute |-> 0, am |-> 1,
                        snoozeMin |-> 5])]

C10_InRange(c) ==
    /\ c.hour12 \in 1..12
    /\ c.minute \in 0..59
    /\ c.am \in {0, 1}
    /\ c.snoozeMin \in 1..30

\* C10: load replaces a stored record with an out-of-range field or a wrong
\* checksum by the default (disabled, 7:00 AM, snooze 5), which it persists
\* with a valid checksum, and uses any other stored record unchanged; after
\* load the configuration in memory is in range in every state.
C10_LoadYieldsInRange ==
    /\ [][pc = "setup" =>
            IF ~C10_InRange(eeprom) \/ eeprom.crc # simpleCRC(eeprom)
            THEN cfg' = C10_Default /\ eeprom' = C10_Default
            ELSE cfg' = eeprom /\ eeprom' = eeprom]_vars
    /\ [](pc # "setup" => (C10_InRange(cfg) /\ C10_InRange(eeprom)))

C10_Witness ==
    /\ pc # "setup" /\ req = "none"
    /\ cfg = C10_Default /\ eeprom = C10_Default


C11_Expected(h, am) ==
    CASE am = 1 /\ h = 12 -> 0
      [] am = 1 /\ h # 12 -> h
      [] am # 1 /\ h = 12 -> 12
      [] OTHER -> h + 12

C11_Inputs == [hour12 : 1..12, am : {0, 1}]

\* C11: the 12-hour to 24-hour conversion gives 0 for 12 AM, the hour for
\* 1..11 AM, 12 for 12 PM and the hour plus 12 for 1..11 PM; the result is
\* in 0..23, the 24 inputs give 24 different hours, and a ring started by
\* the minute match starts in that hour.
C11_HourConversion ==
    /\ \A c \in C11_Inputs :
          /\ alarmHour24(c) = C11_Expected(c.hour12, c.am)
          /\ alarmHour24(c) \in 0..23
    /\ \A c, d \in C11_Inputs : alarmHour24(c) = alarmHour24(d) => c = d
    /\ pc # "setup" => alarmHour24(cfg) = C11_Expected(cfg.hour12, cfg.am)
    /\ alarmRinging =>
          localtime(time(ringStartMs, TRUE)).tm_hour
             = C11_Expected(cfg.hour12, cfg.am)

C11_Witness ==
    /\ pc = "draw" /\ req = "set" /\ took
    /\ cfg.hour12 = 12 /\ cfg.am = 1 /\ cfg.enabled = 1
    /\ ms = FireMs /\ synced /\ ~alarmRinging


\* C12: a trigger engine step taken with untrusted time or with the alarm
\* disabled leaves ringing, snoozeUntil and lastFiredKey as they were: it
\* starts no ring, also at the matching second or with an elapsed snooze,
\* and clears no active ring or snooze.  The second conjunct runs the engine
\* on the current globals with an untrusted clock reading and with the alarm
\* switched off.
C12_EngineSuspended ==
    /\ [][(pc = "logic" /\ pc' = "sound"
           /\ (cfg.enabled = 0 \/ ~timeSynced(Now)))
          => UNCHANGED <<alarmRinging, snoozeUntil, lastTriggerKey>>]_vars
    /\ [](/\ updateAlarmLogic(G, time(ms, FALSE)) = G
          /\ LET off == [G EXCEPT !.cfg.enabled = 0]
             IN  updateAlarmLogic(off, Now) = off)

C12_Witness ==
    /\ pc = "sound" /\ cfg.enabled = 0 /\ synced /\ ms = FireMs
    /\ cfg.hour12 = 7 /\ cfg.minute = 0 /\ cfg.am = 1
    /\ ~alarmRinging /\ lastTriggerKey = -1


\* C13: every entry into Ringing, from the minute match and from the end of
\* a snooze alike, leaves the sound generator at 1200 Hz with the sweep
\* direction up.
C13_RingResetsSound ==
    [][(~alarmRinging /\ alarmRinging') => (toneFreq' = 1200 /\ toneDir' = 1)]_vars


\* C14 (as claimed): a Snooze() accepted while Ringing with trusted time sets
\* snoozeUntil = now + snoozeMinutes * 60, clears ringing and leaves
\* lastFiredKey as it was.
C14_SnoozeKeepsKey ==
    (pc = "client" /\ alarmRinging /\ timeSynced(Now)) =>
        LET s == handleSnooze(G, Now)
        IN  /\ s.snoozeUntil = Now + cfg.snoozeMin * 60
            /\ ~s.alarmRinging
            /\ s.lastTriggerKey = lastTriggerKey

\* C14 (amended): a Snooze() accepted while Ringing with trusted time sets
\* snoozeUntil = now + snoozeMinutes * 60, clears ringing and clears
\* lastFiredKey; the configuration and the sound state stay as they were.
C14_SnoozeClearsKey ==
    /\ (pc = "client" /\ alarmRinging /\ timeSynced(Now)) =>
          handleSnooze(G, Now) =
             [G EXCEPT !.snoozeUntil = Now + cfg.snoozeMin * 60,
                       !.alarmRinging = FALSE,
                       !.lastTriggerKey = -1,
                       !.buzzer = 0,
                       !.resp = 303]
    /\ (pc = "maintain" /\ req = "snooze" /\ took) =>
          /\ timeSynced(snoozeUntil - cfg.snoozeMin * 60)
          /\ snoozeUntil - cfg.snoozeMin * 60 <= Now
          /\ ~alarmRinging
          /\ lastTriggerKey = -1

C14_Witness ==
    /\ pc = "maintain" /\ req = "snooze" /\ took
    /\ firedCount = 1 /\ lastTriggerKey = -1
    /\ snoozeUntil = Now + 60


\* C15: the display step and the status page only read the core state: they
\* leave the configuration, ringing, snoozeUntil and lastFiredKey unchanged,
\* and the trigger state changes only in the trigger engine step and in the
\* Stop, Snooze and ApplyConfiguration handlers.
C15_DisplayReadsOnly ==
    /\ [][((pc = "draw" /\ pc' = "delay")
           \/ (pc = "client" /\ pc' = "maintain" /\ req' = "root"))
          => UNCHANGED <<cfg, alarmRinging, snoozeUntil, lastTriggerKey>>]_vars
    /\ [][<<alarmRinging, snoozeUntil, lastTriggerKey>>'
             # <<alarmRinging, snoozeUntil, lastTriggerKey>>
          => \/ (pc = "logic" /\ pc' = "sound")
             \/ (pc = "client" /\ req' \in {"stop", "snooze", "set"})]_vars


\* C16: while ringing, a sound generator step at elapsed time e since the
\* ring began is in the "on" phase iff e mod 500 < 350: in the "on" phase a
\* due frequency step emits a tone and a sounding tone is kept, in the "off"
\* phase the step silences the output.  This holds for the first ring and
\* for every later one.
C16_PhaseSinceRingStart ==
    [][(pc = "sound" /\ pc' = "draw" /\ alarmRinging) =>
         LET e == ms - ringStartMs
         IN  IF e % 500 < 350
             THEN /\ (ms - lastToneStepMs > StepMs) => buzzer' # 0
                  /\ buzzer # 0 => buzzer' # 0
             ELSE buzzer' = 0]_vars


C18_KeyImpliesRinging ==
    /\ lastTriggerKey # -1 => alarmRinging
    /\ MinuteMatch(G, Now) => TriggerKey(Now) # lastTriggerKey

\* a ring started by the minute match has just been stopped, in second 0 of
\* the matching minute
C18_Witness ==
    /\ pc = "maintain" /\ req = "stop" /\ before.state = "Ringing"
    /\ firedCount >= 1 /\ lastTriggerKey = -1
    /\ timeSynced(Now) /\ MinuteMatch(G, Now)

\* C19: in every reachable state, Ringing or Snoozed implies that the alarm
\* is enabled.
C19_ActiveImpliesEnabled ==
    (alarmRinging \/ snoozeUntil # 0) => cfg.enabled # 0

\* a configuration that disables the alarm has just been applied while a
\* snooze was pending
C19_Witness ==
    /\ pc = "maintain" /\ req = "set" /\ took
    /\ before.state = "Snoozed" /\ cfg.enabled = 0

\* C20: ringing never ends by itself: a step that takes alarmRinging from
\* true to false is the handling of a Stop, a Snooze or an accepted
\* ApplyConfiguration request; no loop step, page read or change of clock,
\* trust or connectivity ends it.
C20_RingingEndsOnRequest ==
    [][(alarmRinging /\ ~alarmRinging') =>
         /\ pc = "client" /\ pc' = "maintain"
         /\ req' \in {"stop", "snooze", "set"}
         /\ req' = "set" => took']_vars

\* a ring started by the minute match is still on in a later minute, after
\* the link has gone down
C20_Witness ==
    /\ alarmRinging /\ lastTriggerKey # -1
    /\ TriggerKey(Now) # lastTriggerKey
    /\ ~wifi /\ pc = "delay"


====
